---- MODULE Spec2Model ----
(***************************************************************************)
(* Reservation List Sorter (src/src/main.ts): the report parser, the       *)
(* classifier and sort engine, the page handlers that cache a SortResult,   *)
(* and the pagination loop of downloadPdf.                                  *)
(*                                                                          *)
(* Text.  A string is a sequence of words (the text split at white space);  *)
(* a raw report line is a record [k, v, bc, len]: k is what the program's   *)
(* regular expressions see in the line, v its words, bc the barcode of an   *)
(* entry-start line, len the number of characters of its free text.  The    *)
(* input is the list of lines that input.replace(/\r/g,"").split("\n")      *)
(* yields, so the empty text area is the one-line text <<blank>>.           *)
(*                                                                          *)
(* Lengths are in thousandths of a point (1 pt = 1000).                     *)
(***************************************************************************)
EXTENDS Integers, Sequences, FiniteSets, TLC

VARIABLES
    sourceText,        \* sourceText.value: the lines of the text area
    pdfFont,           \* pdfFont.value
    pdfTextSize,       \* pdfTextSize.value (a number of points)
    pdfColumns,        \* pdfColumns.value (1 or 2)
    downloadsHidden,   \* downloadActions.classList.contains("hidden")
    statusPanel,       \* what showOk / showError / hideStatus left in the panel
    latestResult,      \* latestResult: Null or a SortResult
    lastSortedSource,  \* lastSortedSource: Null or the lines sorted last
    pc,                \* position of the running handler ("idle": none runs)
    render,            \* the locals of the running downloadPdf call
    pdf,               \* the jsPDF document of the running downloadPdf call
    lastEvent,         \* the handler that ran last, with the state it found
    pOut               \* the ParseResult / details of the last parse-and-sort

vars == <<sourceText, pdfFont, pdfTextSize, pdfColumns, downloadsHidden,
          statusPanel, latestResult, lastSortedSource, pc, render, pdf,
          lastEvent, pOut>>

Null == [null |-> TRUE]

-----------------------------------------------------------------------------
(* Bounds of the model *)

\* longest input, in lines, of the parser specification
MaxLines == 4
\* largest number of entries in a report of the sort specification
MaxSorted == 3
\* largest number of entries in a generated report of the render specification
MaxEntries == 3

-----------------------------------------------------------------------------
(* Program constants *)

MAX_INPUT_BYTES == 1048576
MAX_RENDER_LINES == 12000
MAX_PDF_PAGES == 500
reportLineColumns == 45

-----------------------------------------------------------------------------
(* Strings as word sequences *)

RECURSIVE SumSeq(_)
SumSeq(s) == IF s = <<>> THEN 0 ELSE Head(s) + SumSeq(Tail(s))

Max2(a, b) == IF a >= b THEN a ELSE b
Min2(a, b) == IF a <= b THEN a ELSE b

\* String.prototype.toLowerCase on the words of the model
Lower(w) ==
    CASE w = "Adult" -> "adult"
      [] w = "Junior" -> "junior"
      [] w = "Fiction" -> "fiction"
      [] w = "Non-Fiction" -> "non-fiction"
      [] w = "Graphic" -> "graphic"
      [] w = "DVD" -> "dvd"
      [] w = "Childrens" -> "childrens"
      [] w = "Children" -> "children"
      [] w = "Book" -> "book"
      [] w = "Thriller" -> "thriller"
      [] w = "Crime" -> "crime"
      [] w = "Romance" -> "romance"
      [] w = "ABC" -> "abc"
      [] w = "XYZ" -> "xyz"
      [] w = "Smith" -> "smith"
      [] w = "Jones" -> "jones"
      [] w = "Adults" -> "adults"
      [] w = "Juniors" -> "juniors"
      [] w = "ADULT" -> "adult"
      [] w = "Young" -> "young"
      [] OTHER -> w

\* /children/i on one word
WordHasChildren(w) == Lower(w) \in {"children", "childrens"}

\* number of characters of a string: its words and one space between two
StrLen(s) ==
    IF s = <<>> THEN 0
    ELSE SumSeq([i \in 1..Len(s) |-> Len(s[i])]) + (Len(s) - 1)

-----------------------------------------------------------------------------
(* Raw report lines *)

BlankLine == [k |-> "blank", v |-> <<>>, bc |-> "", len |-> 0]
StartLine(shelf, bc, n) == [k |-> "start", v |-> shelf, bc |-> bc, len |-> n]
TextLine(words, n) == [k |-> "text", v |-> words, bc |-> "", len |-> n]
TypeLine(value) == [k |-> "type", v |-> value, bc |-> "", len |-> StrLen(value)]
SeqLine(value) == [k |-> "seq", v |-> value, bc |-> "", len |-> StrLen(value)]
ReservedLine == [k |-> "res", v |-> <<"Central">>, bc |-> "", len |-> 7]
LibLine(name, n) == [k |-> "lib", v |-> name, bc |-> "", len |-> n]
DateLine(date) == [k |-> "date", v |-> <<date>>, bc |-> "", len |-> 8]

-----------------------------------------------------------------------------
(* Report parser *)

\* entryStartRegex.test(line): text, white space, a 30120... barcode at the end
IsEntryStart(line) == line.k = "start"

\* the trimmed text of a raw line, as words
LineWords(line) ==
    CASE line.k = "start" -> line.v \o <<line.bc>>
      [] line.k = "type" -> <<"Item", "Type", ":">> \o line.v
      [] line.k = "seq" -> <<"Sequence", ":">> \o line.v
      [] line.k = "res" -> <<"Reserved", "at", ":">> \o line.v
      [] line.k = "lib" -> <<"Items", "at">> \o line.v
      [] line.k = "date" -> <<"res_itm_noloan">> \o line.v
      [] OTHER -> line.v

\* number of characters of a raw line
RawLen(line) ==
    CASE line.k = "start" -> line.len + 1 + Len(line.bc)
      [] line.k = "type" -> 11 + line.len
      [] line.k = "seq" -> 10 + line.len
      [] line.k = "lib" -> 9 + line.len
      [] line.k = "date" -> 15 + line.len
      [] OTHER -> line.len

\* lines.findIndex(entryStartRegex.test), from i on; 0 when there is none
RECURSIVE FindFirstEntry(_, _)
FindFirstEntry(lines, i) ==
    IF i > Len(lines) THEN 0
    ELSE IF IsEntryStart(lines[i]) THEN i
    ELSE FindFirstEntry(lines, i + 1)

UnknownLibrary == [v |-> <<"Unknown", "Library">>, len |-> 15]
UnknownDate == <<"Unknown", "date">>

\* extractHeaderMetadata: the last matching header line of each kind wins
RECURSIVE ExtractHeaderMetadata(_, _)
ExtractHeaderMetadata(headerLines, meta) ==
    IF headerLines = <<>> THEN meta
    ELSE LET line == Head(headerLines)
             m1 == IF line.k = "lib"
                   THEN [meta EXCEPT !.libraryName = [v |-> line.v, len |-> line.len]]
                   ELSE meta
             m2 == IF line.k = "date" THEN [m1 EXCEPT !.reportDate = line.v] ELSE m1
         IN ExtractHeaderMetadata(Tail(headerLines), m2)

\* findField: the value of the first "<fieldName> : <value>" line, else ""
RECURSIVE FindField(_, _)
FindField(lines, fieldKind) ==
    IF lines = <<>> THEN <<>>
    ELSE IF Head(lines).k = fieldKind THEN Head(lines).v
    ELSE FindField(Tail(lines), fieldKind)

\* classifyAudience leaving the audience open where no rule applies
ClassifyAudienceUndecided(itemType, sequence) ==
    IF Len(itemType) >= 1 /\ Lower(itemType[1]) = "adult" THEN "adult"
    ELSE IF Len(itemType) >= 1 /\ Lower(itemType[1]) = "junior" THEN "junior"
    ELSE IF \/ \E i \in 1..Len(itemType) : WordHasChildren(itemType[i])
            \/ \E i \in 1..Len(sequence) : WordHasChildren(sequence[i])
         THEN "junior"
    ELSE "unknown"

\* classifyAudience looking for "children" before the two prefixes
ClassifyAudienceChildrenFirst(itemType, sequence) ==
    IF \/ \E i \in 1..Len(itemType) : WordHasChildren(itemType[i])
       \/ \E i \in 1..Len(sequence) : WordHasChildren(sequence[i])
    THEN "junior"
    ELSE IF Len(itemType) >= 1 /\ Lower(itemType[1]) = "junior" THEN "junior"
    ELSE "adult"

\* classifyAudience
ClassifyAudience(itemType, sequence) ==
    IF Len(itemType) >= 1 /\ Lower(itemType[1]) = "adult" THEN "adult"
    ELSE IF Len(itemType) >= 1 /\ Lower(itemType[1]) = "junior" THEN "junior"
    ELSE IF \/ \E i \in 1..Len(itemType) : WordHasChildren(itemType[i])
            \/ \E i \in 1..Len(sequence) : WordHasChildren(sequence[i])
         THEN "junior"
    ELSE "adult"

\* parseEntry (its throw is ParseList's "InvalidStart")
ParseEntry(rawLines, originalIndex) ==
    LET firstLine == rawLines[1]
        itemType == FindField(rawLines, "type")
        sequence == FindField(rawLines, "seq")
    IN [rawLines |-> rawLines,
        barcode |-> <<firstLine.bc>>,
        shelfmark |-> IF firstLine.v = <<>> THEN <<>> ELSE <<firstLine.v[1]>>,
        author |-> IF Len(rawLines) >= 2 THEN LineWords(rawLines[2]) ELSE <<>>,
        itemType |-> itemType,
        sequence |-> sequence,
        audience |-> ClassifyAudience(itemType, sequence),
        originalIndex |-> originalIndex]

\* finalizeCurrent numbering the entries from 1 instead of 0
FinalizeCurrentCountsFromOne(entries, currentLines) ==
    IF Len(currentLines) = 0 THEN entries
    ELSE Append(entries, ParseEntry(currentLines, Len(entries) + 1))

\* finalizeCurrent: entries after it ran (currentLines is then emptied)
FinalizeCurrent(entries, currentLines) ==
    IF Len(currentLines) = 0 THEN entries
    ELSE Append(entries, ParseEntry(currentLines, Len(entries)))

\* the loop of parseList leaving the blank lines out of the records
RECURSIVE ParseLoopSkipsBlank(_, _, _, _)
ParseLoopSkipsBlank(lines, i, entries, currentLines) ==
    IF i > Len(lines) THEN FinalizeCurrent(entries, currentLines)
    ELSE IF IsEntryStart(lines[i])
         THEN ParseLoopSkipsBlank(lines, i + 1, FinalizeCurrent(entries, currentLines),
                                  <<lines[i]>>)
    ELSE IF Len(currentLines) > 0 /\ lines[i].k # "blank"
         THEN ParseLoopSkipsBlank(lines, i + 1, entries, Append(currentLines, lines[i]))
    ELSE ParseLoopSkipsBlank(lines, i + 1, entries, currentLines)

\* the loop of parseList from line i on, and the finalizeCurrent after it
RECURSIVE ParseLoop(_, _, _, _)
ParseLoop(lines, i, entries, currentLines) ==
    IF i > Len(lines) THEN FinalizeCurrent(entries, currentLines)
    ELSE IF IsEntryStart(lines[i])
         THEN ParseLoop(lines, i + 1, FinalizeCurrent(entries, currentLines), <<lines[i]>>)
    ELSE IF Len(currentLines) > 0
         THEN ParseLoop(lines, i + 1, entries, Append(currentLines, lines[i]))
    ELSE ParseLoop(lines, i + 1, entries, currentLines)

\* lines.filter(entryStartRegex.test).length
RawEntryCount(lines) == Cardinality({i \in 1..Len(lines) : IsEntryStart(lines[i])})

ParseError(kind, detected, parsed) ==
    [ok |-> FALSE, error |-> kind, detected |-> detected, parsed |-> parsed,
     libraryName |-> UnknownLibrary, reportDate |-> UnknownDate, entries |-> <<>>]

\* parseList: a ParseResult (ok), or the Error it throws
ParseList(lines) ==
    LET firstEntryIndex == FindFirstEntry(lines, 1) IN
    IF firstEntryIndex = 0 THEN ParseError("NoEntries", 0, 0)
    ELSE
      LET meta == ExtractHeaderMetadata(SubSeq(lines, 1, firstEntryIndex - 1),
                      [libraryName |-> UnknownLibrary, reportDate |-> UnknownDate])
          entries == ParseLoop(lines, firstEntryIndex, <<>>, <<>>)
          rawEntryCount == RawEntryCount(lines)
      IN IF \E i \in 1..Len(entries) : ~IsEntryStart(entries[i].rawLines[1])
         THEN ParseError("InvalidStart", rawEntryCount, Len(entries))
         ELSE IF Len(entries) # rawEntryCount
         THEN ParseError("Integrity", rawEntryCount, Len(entries))
         ELSE IF Len(entries) = 0
         THEN ParseError("ZeroEntries", rawEntryCount, 0)
         ELSE [ok |-> TRUE, error |-> "", detected |-> rawEntryCount,
               parsed |-> Len(entries), libraryName |-> meta.libraryName,
               reportDate |-> meta.reportDate, entries |-> entries]

-----------------------------------------------------------------------------
(* Classifier and sort engine *)

\* the words of the model in the order of String.prototype.localeCompare with
\* { sensitivity: "base", numeric: true }: digits first, letters without case
Collation ==
    <<"301201", "301202", "301203", "301204", ":", "abc", "adult", "at", "book", "central",
      "children", "childrens", "crime", "date", "dvd", "fiction", "graphic",
      "item", "items", "jones", "junior", "library", "non-fiction", "reserved",
      "romance", "sequence", "smith", "springfield", "thriller", "type",
      "unknown", "xyz">>

WordRank(w) ==
    LET Rank(lower) ==
            IF \E i \in 1..Len(Collation) : Collation[i] = lower
            THEN CHOOSE i \in 1..Len(Collation) : Collation[i] = lower
            ELSE Len(Collation) + 1
    IN Rank(Lower(w))

\* compareText: a.localeCompare(b, undefined, {sensitivity: "base", numeric: true})
RECURSIVE CompareText(_, _)
CompareText(a, b) ==
    IF a = <<>> /\ b = <<>> THEN 0
    ELSE IF a = <<>> THEN -1
    ELSE IF b = <<>> THEN 1
    ELSE LET ByRank(ra, rb) ==
                 IF ra < rb THEN -1
                 ELSE IF ra > rb THEN 1
                 ELSE CompareText(Tail(a), Tail(b))
         IN ByRank(WordRank(Head(a)), WordRank(Head(b)))

\* itemTypeBucket testing for dvd last instead of first
ItemTypeBucketDvdLast(itemType) ==
    LET w(i) == IF i <= Len(itemType) THEN Lower(itemType[i]) ELSE ""
    IN IF /\ w(1) \in {"adult", "junior"}
          /\ (w(2) = "non-fiction" \/ (w(2) = "non" /\ w(3) = "fiction"))
       THEN 0
       ELSE IF w(1) \in {"adult", "junior"} /\ w(2) = "fiction" THEN 1
       ELSE IF \E i \in 1..Len(itemType) : w(i) = "graphic" /\ w(i + 1) = "fiction" THEN 2
       ELSE 3

\* itemTypeBucket
ItemTypeBucket(itemType) ==
    LET w(i) == IF i <= Len(itemType) THEN Lower(itemType[i]) ELSE ""
    IN IF \E i \in 1..Len(itemType) : w(i) = "dvd" THEN 3
       ELSE IF /\ w(1) \in {"adult", "junior"}
               /\ (w(2) = "non-fiction" \/ (w(2) = "non" /\ w(3) = "fiction"))
            THEN 0
       ELSE IF w(1) \in {"adult", "junior"} /\ w(2) = "fiction" THEN 1
       ELSE IF \E i \in 1..Len(itemType) : w(i) = "graphic" /\ w(i + 1) = "fiction" THEN 2
       ELSE 3

\* compareTypeBucket
CompareTypeBucket(aType, bType) == ItemTypeBucket(aType) - ItemTypeBucket(bType)

\* compareSequence testing a for blank first, whatever b is
CompareSequenceBlankFirst(a, b) ==
    IF a = <<>> THEN -1
    ELSE IF b = <<>> THEN 1
    ELSE CompareText(a, b)

\* compareSequence
CompareSequence(a, b) ==
    IF a = <<>> /\ b = <<>> THEN 0
    ELSE IF a = <<>> THEN -1
    ELSE IF b = <<>> THEN 1
    ELSE CompareText(a, b)

\* normalizeSequenceForSorting without the shelf policy
NormalizeSequenceForSortingRaw(itemType, sequence) == sequence

\* normalizeSequenceForSorting
NormalizeSequenceForSorting(itemType, sequence) ==
    IF ~(Len(itemType) = 2 /\ Lower(itemType[1]) = "adult" /\ Lower(itemType[2]) = "fiction")
    THEN sequence
    ELSE IF Len(sequence) = 1 /\ Lower(sequence[1]) = "thriller" THEN <<"Crime">>
    ELSE IF /\ Len(sequence) = 1
            /\ Lower(sequence[1]) \in {"historical", "romance", "saga", "horror", "western"}
         THEN <<>>
    ELSE sequence

\* compareEntries: "if (c !== 0) return c;" for each key in turn, then the
\* original index
CompareEntries(a, b) ==
    LET OrElse(c, next) == IF c # 0 THEN c ELSE next
        typeBucketCompare == CompareTypeBucket(a.itemType, b.itemType)
        itemTypeCompare == CompareText(a.itemType, b.itemType)
        sequenceCompare ==
            CompareSequence(NormalizeSequenceForSorting(a.itemType, a.sequence),
                            NormalizeSequenceForSorting(b.itemType, b.sequence))
        shelfmarkCompare == CompareText(a.shelfmark, b.shelfmark)
        authorCompare == CompareText(a.author, b.author)
        barcodeCompare == CompareText(a.barcode, b.barcode)
    IN OrElse(typeBucketCompare,
       OrElse(itemTypeCompare,
       OrElse(sequenceCompare,
       OrElse(shelfmarkCompare,
       OrElse(authorCompare,
       OrElse(barcodeCompare,
              a.originalIndex - b.originalIndex))))))

\* Array.prototype.sort(compareEntries): a stable sort, here by insertion
RECURSIVE InsertSorted(_, _)
InsertSorted(sorted, e) ==
    IF sorted = <<>> THEN <<e>>
    ELSE IF CompareEntries(e, Head(sorted)) < 0 THEN <<e>> \o sorted
    ELSE <<Head(sorted)>> \o InsertSorted(Tail(sorted), e)

RECURSIVE SortEntries(_)
SortEntries(entries) ==
    IF entries = <<>> THEN <<>>
    ELSE InsertSorted(SortEntries(SubSeq(entries, 1, Len(entries) - 1)),
                      entries[Len(entries)])

\* allEntries.filter(audience === ...).sort(compareEntries)
IsAdultEntry(e) == e.audience = "adult"
IsJuniorEntry(e) == e.audience = "junior"
\* the adult list without its filter on the audience
AdultEntriesUnfiltered(parsed) == SortEntries(parsed.entries)
AdultEntries(parsed) == SortEntries(SelectSeq(parsed.entries, IsAdultEntry))
JuniorEntries(parsed) == SortEntries(SelectSeq(parsed.entries, IsJuniorEntry))

-----------------------------------------------------------------------------
(* Render documents *)

\* a RenderLine: one segment (text, len characters, style) and a right field
MakeStyledLine(text, len, style) ==
    [text |-> text, len |-> len, style |-> style, rightText |-> ""]
MakePlainLine(text, len) == MakeStyledLine(text, len, "normal")
EmptyLine == MakePlainLine(<<>>, 0)

\* isBlankLine
IsBlankLine(line) == line.len = 0 /\ line.rightText = ""

\* isMetadataLine
IsMetadataLine(line) == line.k \in {"type", "seq", "res"}

\* shouldOmitEntryLine: a bare "Sequence :" line
ShouldOmitEntryLine(line) == line.k = "seq" /\ line.v = <<>>

IsNonBlankRaw(line) == line.k # "blank"

\* remaining.findIndex(isMetadataLine), from i on; 0 when there is none
RECURSIVE FindMetadataStart(_, _)
FindMetadataStart(remaining, i) ==
    IF i > Len(remaining) THEN 0
    ELSE IF IsMetadataLine(remaining[i]) THEN i
    ELSE FindMetadataStart(remaining, i + 1)

\* the loop of buildEntryRenderLines over remaining, from i on
RECURSIVE RemainingRenderLines(_, _, _)
RemainingRenderLines(remaining, i, titleIndex) ==
    IF i > Len(remaining) THEN <<>>
    ELSE LET line == remaining[i]
             rest == RemainingRenderLines(remaining, i + 1, titleIndex)
         IN IF ShouldOmitEntryLine(line) THEN rest
            ELSE IF i = titleIndex
                 THEN <<MakeStyledLine(LineWords(line), RawLen(line), "italic")>> \o rest
            ELSE <<MakePlainLine(LineWords(line), RawLen(line))>> \o rest

\* buildEntryRenderLines
BuildEntryRenderLines(rawLines) ==
    LET nonBlank == SelectSeq(rawLines, IsNonBlankRaw) IN
    IF Len(nonBlank) = 0 THEN <<>>
    ELSE
      LET first == nonBlank[1]
          firstLine ==
              IF first.k = "start" /\ first.v # <<>>
              THEN [text |-> first.v, len |-> first.len, style |-> "normal",
                    rightText |-> first.bc]
              ELSE IF first.k = "start" THEN MakePlainLine(<<first.bc>>, Len(first.bc))
              ELSE MakePlainLine(LineWords(first), RawLen(first))
          remaining == Tail(nonBlank)
          metadataStart == FindMetadataStart(remaining, 1)
          titleIndex == IF metadataStart > 1 THEN metadataStart - 1 ELSE 0
      IN <<firstLine>> \o RemainingRenderLines(remaining, 1, titleIndex)

\* formatGroupHeading, as a bold line ("-" stands for the dash of the source)
FormatGroupHeading(itemType, effectiveSequence) ==
    IF effectiveSequence = <<>>
    THEN MakeStyledLine(itemType \o <<"-">>, StrLen(itemType) + 2, "bold")
    ELSE MakeStyledLine(itemType \o <<"-">> \o effectiveSequence,
                        StrLen(itemType) + 3 + StrLen(effectiveSequence), "bold")

\* the block buildRenderBlocks pushes for an entry
EntryBlock(entry, opensSection, currentSectionHeading) ==
    LET effectiveSequence == NormalizeSequenceForSorting(entry.itemType, entry.sequence)
        cleanedEntryLines == BuildEntryRenderLines(entry.rawLines)
        sectionHeading == FormatGroupHeading(entry.itemType, effectiveSequence)
    IN IF opensSection
       THEN [lines |-> <<sectionHeading, EmptyLine>> \o cleanedEntryLines \o <<EmptyLine>>,
             sectionHeading |-> sectionHeading,
             hasHeading |-> TRUE]
       ELSE [lines |-> cleanedEntryLines \o <<EmptyLine>>,
             sectionHeading |-> currentSectionHeading,
             hasHeading |-> FALSE]

GroupKey(entry) ==
    <<entry.itemType, NormalizeSequenceForSorting(entry.itemType, entry.sequence)>>

\* the loop of buildRenderBlocks keeping the heading of the first section
RECURSIVE RenderBlocksLoopStaleHeading(_, _, _, _)
RenderBlocksLoopStaleHeading(entries, i, lastGroupKey, currentSectionHeading) ==
    IF i > Len(entries) THEN <<>>
    ELSE LET Push(groupKey, block) ==
                 <<block>> \o RenderBlocksLoopStaleHeading(entries, i + 1, groupKey,
                                  IF i = 1 THEN block.sectionHeading
                                  ELSE currentSectionHeading)
             Entry(entry, groupKey) ==
                 Push(groupKey,
                      EntryBlock(entry, groupKey # lastGroupKey, currentSectionHeading))
         IN Entry(entries[i], GroupKey(entries[i]))

\* the loop of buildRenderBlocks from entry i on
RECURSIVE RenderBlocksLoop(_, _, _, _)
RenderBlocksLoop(entries, i, lastGroupKey, currentSectionHeading) ==
    IF i > Len(entries) THEN <<>>
    ELSE LET Push(groupKey, block) ==
                 <<block>> \o RenderBlocksLoop(entries, i + 1, groupKey, block.sectionHeading)
             Entry(entry, groupKey) ==
                 Push(groupKey,
                      EntryBlock(entry, groupKey # lastGroupKey, currentSectionHeading))
         IN Entry(entries[i], GroupKey(entries[i]))

\* while (isBlankLine(last)) pop
RECURSIVE PopTrailingBlank(_)
PopTrailingBlank(lines) ==
    IF Len(lines) > 0 /\ IsBlankLine(lines[Len(lines)])
    THEN PopTrailingBlank(SubSeq(lines, 1, Len(lines) - 1))
    ELSE lines

\* buildRenderBlocks
BuildRenderBlocks(entries) ==
    LET blocks == RenderBlocksLoop(entries, 1, <<>>, EmptyLine) IN
    IF Len(blocks) = 0 THEN blocks
    ELSE [blocks EXCEPT ![Len(blocks)].lines = PopTrailingBlank(@)]

\* buildDocument: "<label> reservation list - <libraryName> - <reportDate>"
BuildDocument(audienceLabel, libraryName, reportDate, entries) ==
    [title |-> MakeStyledLine(<<audienceLabel, "reservation", "list", "-">>
                                \o libraryName.v \o <<"-">> \o reportDate,
                              Len(audienceLabel) + 20 + libraryName.len + 3
                                + StrLen(reportDate),
                              "bold"),
     blocks |-> BuildRenderBlocks(entries)]

IndexSet(entries) == {entries[i].originalIndex : i \in 1..Len(entries)}

\* buildSortedLists
BuildSortedLists(parsed) ==
    LET IsValid(allIndices, splitIndices) ==
            /\ Cardinality(splitIndices) = Cardinality(allIndices)
            /\ \A i \in allIndices : i \in splitIndices
        Result(allEntries, adultEntries, juniorEntries) ==
            [originalCount |-> Len(allEntries),
             adultCount |-> Len(adultEntries),
             juniorCount |-> Len(juniorEntries),
             isValid |-> IsValid(IndexSet(allEntries),
                                 IndexSet(adultEntries \o juniorEntries)),
             adultDoc |-> BuildDocument("Adult", parsed.libraryName, parsed.reportDate,
                                        adultEntries),
             juniorDoc |-> BuildDocument("Junior", parsed.libraryName, parsed.reportDate,
                                         juniorEntries)]
    IN Result(parsed.entries, AdultEntries(parsed), JuniorEntries(parsed))

-----------------------------------------------------------------------------
(* Layout of downloadPdf: the measures of the rendering backend and the        *)
(* constants computed from them.  The backend is jsPDF with an A4 page in      *)
(* points; a character is taken to be as wide as "0" in the chosen font.       *)

\* doc.internal.pageSize of new jsPDF({unit: "pt", format: "a4"})
PageWidth == 595280
PageHeight == 841890
margin == 36000
FooterOffset == 16000
ColumnGap == 24000
MinLeftWidth == 20000

\* doc.getTextWidth("0") at 1 pt, in thousandths of the font size
ZeroWidth(fontFamily) ==
    CASE fontFamily = "courier" -> 600
      [] fontFamily = "times" -> 500
      [] OTHER -> 556

\* getPdfTextSize: the chosen size, kept within 8..14
GetPdfTextSize(value) == Min2(14, Max2(8, value))

\* getPdfFontFamily
GetPdfFontFamily(value) == IF value \in {"times", "courier"} THEN value ELSE "helvetica"

\* getPdfColumns
GetPdfColumns(value) == IF value = 2 THEN 2 ELSE 1

\* Math.ceil(doc.getTextDimensions("Mg").h * 1.25), h being 1.15 times the size
LineHeight(textSizePt) == ((textSizePt * 14375 + 9999) \div 10000) * 1000

\* Math.floor(lineHeight * 0.6)
FitSlack(lineHeight) == (((lineHeight \div 1000) * 6) \div 10) * 1000

\* the constants of one downloadPdf call
Layout(textSizePt, columnCount, fontFamily) ==
    LET charWidth == ZeroWidth(fontFamily) * textSizePt
        maxTextWidth == PageWidth - margin * 2
        columnGap == IF columnCount = 2 THEN ColumnGap ELSE 0
        columnWidth == IF columnCount = 2 THEN (maxTextWidth - columnGap) \div 2
                       ELSE maxTextWidth
        footerY == PageHeight - FooterOffset
    IN [lineHeight |-> LineHeight(textSizePt),
        fitSlack |-> FitSlack(LineHeight(textSizePt)),
        charWidth |-> charWidth,
        maxTextWidth |-> maxTextWidth,
        columnWidth |-> columnWidth,
        rightAlignedWidth |-> Min2(columnWidth, reportLineColumns * charWidth),
        columnCount |-> columnCount,
        usableHeight |-> footerY - margin]

\* doc.splitTextToSize(text, maxWidth).length for a text of len characters
SplitCount(len, maxWidth, charWidth) ==
    LET perLine == Max2(1, maxWidth \div charWidth)
    IN (len + perLine - 1) \div perLine

\* wrapRenderLine(...).length: the number of lines one RenderLine wraps to
WrapCount(line, maxTextWidth, rightAlignedWidth, charWidth) ==
    IF line.len = 0 /\ line.rightText = "" THEN 1
    ELSE IF line.rightText # ""
    THEN LET barcodeWidth == Len(line.rightText) * charWidth
             gapWidth == 2 * charWidth
             leftMaxWidth == Max2(MinLeftWidth, rightAlignedWidth - barcodeWidth - gapWidth)
         IN Max2(1, SplitCount(line.len, leftMaxWidth, charWidth))
    ELSE SplitCount(line.len, maxTextWidth, charWidth)

\* block.lines.flatMap(wrapRenderLine): per RenderLine, whether its wrapped
\* lines are blank and how many they are
WrapLines(lines, lay) ==
    [i \in 1..Len(lines) |->
        [blank |-> IsBlankLine(lines[i]),
         n |-> WrapCount(lines[i], lay.columnWidth, lay.rightAlignedWidth, lay.charWidth)]]

\* wrappedBlocks
WrapBlocks(blocks, lay) ==
    [b \in 1..Len(blocks) |->
        [lines |-> WrapLines(blocks[b].lines, lay),
         sectionHeading |-> blocks[b].sectionHeading,
         hasHeading |-> blocks[b].hasHeading]]

\* lines.length of a wrapped line list
LineCount(lines) == SumSeq([i \in 1..Len(lines) |-> lines[i].n])

\* countTrailingBlankLines
RECURSIVE CountTrailingBlankLines(_)
CountTrailingBlankLines(lines) ==
    IF Len(lines) = 0 \/ ~lines[Len(lines)].blank THEN 0
    ELSE lines[Len(lines)].n + CountTrailingBlankLines(SubSeq(lines, 1, Len(lines) - 1))

\* totalWrappedLines
TotalWrappedLines(wrappedBlocks, titleLines) ==
    SumSeq([b \in 1..Len(wrappedBlocks) |-> LineCount(wrappedBlocks[b].lines)]) + titleLines

-----------------------------------------------------------------------------
(* Page state and its handlers *)

NoSource == <<>>
NoParse == [called |-> FALSE, parsed |-> ParseError("", 0, 0),
            adultEntries |-> <<>>, juniorEntries |-> <<>>]

\* the state the handlers share
Ui == [latestResult |-> latestResult, lastSortedSource |-> lastSortedSource,
       hidden |-> downloadsHidden, status |-> statusPanel]

HasValidResult(ui) == ui.latestResult # Null /\ ui.latestResult.isValid

\* resetDownloads(); latestResult = null; lastSortedSource = null; hideStatus()
Invalidate(ui) ==
    [latestResult |-> Null, lastSortedSource |-> NoSource, hidden |-> TRUE,
     status |-> "hidden"]

\* an input listener that keeps the cached result
OnSourceInputKeeps(ui, value) == ui

\* the "input" listener of sourceText, value being sourceText.value
OnSourceInput(ui, value) ==
    IF ui.lastSortedSource = NoSource THEN ui
    ELSE IF value # ui.lastSortedSource THEN Invalidate(ui)
    ELSE ui

\* the "change" listener of pdfTextSize
OnTextSizeChange(ui) == IF ~ui.hidden THEN Invalidate(ui) ELSE ui

\* a change listener that keeps the cached result
OnFontChangeKeeps(ui) == ui

\* the "change" listener of pdfFont
OnFontChange(ui) == IF ~ui.hidden THEN Invalidate(ui) ELSE ui

\* the columns listener dropping the result and leaving the download actions shown
OnColumnsChangeKeepsButtons(ui) ==
    IF ~ui.hidden THEN [Invalidate(ui) EXCEPT !.hidden = FALSE] ELSE ui

\* the "change" listener of pdfColumns
OnColumnsChange(ui) == IF ~ui.hidden THEN Invalidate(ui) ELSE ui

\* !source.trim()
IsBlankText(source) == \A i \in 1..Len(source) : source[i].k = "blank"

\* new TextEncoder().encode(source).length: the lines and the "\n" between them
TextBytes(source) ==
    SumSeq([i \in 1..Len(source) |-> RawLen(source[i])]) + (Len(source) - 1)

\* a click listener that sets lastSortedSource before it validates and parses
OnSortClickRemembersFirst(ui, source) ==
    LET reset == [ui EXCEPT !.hidden = TRUE, !.latestResult = Null,
                            !.lastSortedSource = source]
        Sorted(sorted) ==
            IF ~sorted.isValid
            THEN [reset EXCEPT !.latestResult = sorted,
                               !.status = "error: integrity check FAIL"]
            ELSE [latestResult |-> sorted, lastSortedSource |-> source,
                  hidden |-> FALSE, status |-> "ok"]
        Parsed(parsed) ==
            IF ~parsed.ok THEN [reset EXCEPT !.status = "error: sort failed"]
            ELSE Sorted(BuildSortedLists(parsed))
    IN IF IsBlankText(source) THEN [reset EXCEPT !.status = "error: paste a list"]
       ELSE IF TextBytes(source) > MAX_INPUT_BYTES
       THEN [reset EXCEPT !.status = "error: input too large"]
       ELSE Parsed(ParseList(source))

\* the "click" listener of sortButton, source being sourceText.value
OnSortClick(ui, source) ==
    LET reset == [ui EXCEPT !.hidden = TRUE, !.latestResult = Null,
                            !.lastSortedSource = NoSource]
    IN IF IsBlankText(source) THEN [reset EXCEPT !.status = "error: paste a list"]
       ELSE IF TextBytes(source) > MAX_INPUT_BYTES
       THEN [reset EXCEPT !.status = "error: input too large"]
       ELSE
         LET Sorted(sorted) ==
                 IF ~sorted.isValid
                 THEN [reset EXCEPT !.latestResult = sorted,
                                    !.status = "error: integrity check FAIL"]
                 ELSE [latestResult |-> sorted, lastSortedSource |-> source,
                       hidden |-> FALSE, status |-> "ok"]
             Parsed(parsed) ==
                 IF ~parsed.ok THEN [reset EXCEPT !.status = "error: sort failed"]
                 ELSE Sorted(BuildSortedLists(parsed))
         IN Parsed(ParseList(source))

\* whether the sort handler got as far as calling parseList
SortCallsParse(source) == ~IsBlankText(source) /\ TextBytes(source) <= MAX_INPUT_BYTES

\* the guard of the download listeners: whether downloadPdf is called
DownloadAllowed(ui) == ~(ui.latestResult = Null \/ ~ui.latestResult.isValid)

-----------------------------------------------------------------------------
(* downloadPdf: its locals (render) and the document it draws into (pdf) *)

NoDraw == [block |-> 0, from |-> 0, to |-> 0, page |-> 0, col |-> 0, y |-> 0,
           whole |-> FALSE]

NoRender ==
    [outcome |-> "none", fileName |-> "", lay |-> Layout(11, 1, "helvetica"),
     blocks |-> <<>>, titleLines |-> 0, total |-> 0, y |-> 0, columnIndex |-> 0,
     contentStartY |-> 0, renderAborted |-> FALSE, b |-> 0, mode |-> "",
     toDraw |-> 0, i |-> 0]

NoPdf ==
    [pages |-> 0, titles |-> 0, drawnTo |-> <<>>, trimmed |-> <<>>, inOrder |-> TRUE,
     contHeadings |-> 0, colTop |-> "none", colEntry |-> [kind |-> "start", block |-> 0],
     lastDraw |-> NoDraw, footers |-> 0, footerText |-> <<>>, saved |-> FALSE]

\* the line cap with >= in place of >
ExceedsLineCapAtCap(totalWrappedLines) == totalWrappedLines >= MAX_RENDER_LINES

\* totalWrappedLines > MAX_RENDER_LINES: the render is refused
ExceedsLineCap(totalWrappedLines) == totalWrappedLines > MAX_RENDER_LINES

\* linesToDraw without its trailing blank lines whenever it has some
LinesToDrawAlwaysTrimmed(lines, y, lay) ==
    LineCount(lines) - CountTrailingBlankLines(lines)

\* linesToDraw cut to the lines that fit in the rest of the column
LinesToDrawThatFit(lines, y, lay) ==
    Min2(LineCount(lines), Max2(1, (lay.usableHeight - y) \div lay.lineHeight))

\* the number of lines of block.lines the placement loop draws: all of them, or
\* all but the trailing blank ones when only that makes the block fit
LinesToDraw(lines, y, lay) ==
    LET n == LineCount(lines)
        trailingBlankCount == CountTrailingBlankLines(lines)
        fullHeight == n * lay.lineHeight
        trimmedHeight == (n - trailingBlankCount) * lay.lineHeight
        remaining == lay.usableHeight - y
    IN IF /\ trailingBlankCount > 0
          /\ fullHeight > remaining + lay.fitSlack
          /\ trimmedHeight <= remaining + lay.fitSlack
       THEN n - trailingBlankCount
       ELSE n

\* blockHeight > usableHeight: the block is placed line by line
IsOversized(toDraw, lay) == toDraw * lay.lineHeight > lay.usableHeight

\* y + lineHeight > usableHeight, in the line-by-line loop
LineOverflows(r) == r.y + r.lay.lineHeight > r.lay.usableHeight

\* blockHeight > remaining + fitSlack, for a block placed as a whole
BlockOverflows(r) ==
    r.toDraw * r.lay.lineHeight > (r.lay.usableHeight - r.y) + r.lay.fitSlack

\* startNewPage: the title is drawn from the margin down, content starts a line below
StartNewPage(titleLines, lay) ==
    LET contentStartY == margin + titleLines * lay.lineHeight + lay.lineHeight
    IN [y |-> contentStartY, columnIndex |-> 0, contentStartY |-> contentStartY]

\* advanceColumnOrPage that never moves to the next column of the page
AdvanceColumnOrPageSkipsColumn(r, pages) ==
    IF pages >= MAX_PDF_PAGES
    THEN [columnIndex |-> r.columnIndex, y |-> r.y, contentStartY |-> r.contentStartY,
          pages |-> pages, aborted |-> TRUE, moved |-> TRUE]
    ELSE [columnIndex |-> 0,
          y |-> margin + r.titleLines * r.lay.lineHeight + r.lay.lineHeight,
          contentStartY |-> margin + r.titleLines * r.lay.lineHeight + r.lay.lineHeight,
          pages |-> pages + 1, aborted |-> FALSE, moved |-> TRUE]

\* advanceColumnOrPage without the check of the page count
AdvanceColumnOrPageUncapped(r, pages) ==
    IF r.columnIndex < r.lay.columnCount - 1
    THEN [columnIndex |-> r.columnIndex + 1, y |-> r.contentStartY,
          contentStartY |-> r.contentStartY, pages |-> pages,
          aborted |-> FALSE, moved |-> FALSE]
    ELSE [columnIndex |-> 0,
          y |-> margin + r.titleLines * r.lay.lineHeight + r.lay.lineHeight,
          contentStartY |-> margin + r.titleLines * r.lay.lineHeight + r.lay.lineHeight,
          pages |-> pages + 1, aborted |-> FALSE, moved |-> TRUE]

\* advanceColumnOrPage: the cursor and page count after it, whether it aborted the
\* render, and what it returns (movedToNewPage)
AdvanceColumnOrPage(r, pages) ==
    IF r.columnIndex < r.lay.columnCount - 1
    THEN [columnIndex |-> r.columnIndex + 1, y |-> r.contentStartY,
          contentStartY |-> r.contentStartY, pages |-> pages,
          aborted |-> FALSE, moved |-> FALSE]
    ELSE IF pages >= MAX_PDF_PAGES
    THEN [columnIndex |-> r.columnIndex, y |-> r.y, contentStartY |-> r.contentStartY,
          pages |-> pages, aborted |-> TRUE, moved |-> TRUE]
    ELSE LET next == StartNewPage(r.titleLines, r.lay)
         IN [columnIndex |-> next.columnIndex, y |-> next.y,
             contentStartY |-> next.contentStartY, pages |-> pages + 1,
             aborted |-> FALSE, moved |-> TRUE]

\* a placement loop that never draws the continued heading
NeedsContinuedHeadingNever(movedToNewPage, block) == FALSE

\* movedToNewPage && !block.hasHeading
NeedsContinuedHeading(movedToNewPage, block) == movedToNewPage /\ ~block.hasHeading

\* headingLines.length of drawContinuedSectionHeading: "<heading> (cont.)", wrapped,
\* and an empty line
ContinuedHeadingLines(sectionHeading, lay) ==
    WrapCount(MakeStyledLine(sectionHeading.text \o <<"(cont.)">>,
                             sectionHeading.len + 8, "bold"),
              lay.columnWidth, lay.rightAlignedWidth, lay.charWidth) + 1

\* the footer loop stopping a page early
WriteFootersButLast(pageCount) ==
    [page \in 1..(pageCount - 1) |-> <<[x |-> page, y |-> pageCount]>>]

\* the footer loop: the texts "Page x of y" written on each page
WriteFooters(pageCount) ==
    [page \in 1..pageCount |-> <<[x |-> page, y |-> pageCount]>>]

\* the document after lines from..to of block b were handed to drawWrappedLines
Drawn(d, r, from, to, whole) ==
    [d EXCEPT !.drawnTo[r.b] = to,
              !.inOrder = d.inOrder /\ from = d.drawnTo[r.b] + 1 /\ to >= from,
              !.colTop = IF d.colTop # "none" THEN d.colTop
                         ELSE IF r.blocks[r.b].hasHeading /\ from = 1 THEN "heading"
                         ELSE "content",
              !.lastDraw = [block |-> r.b, from |-> from, to |-> to, page |-> d.pages,
                            col |-> r.columnIndex, y |-> r.y, whole |-> whole]]

-----------------------------------------------------------------------------
(* Inputs *)

FontOptions == {"helvetica", "courier"}
TextSizeOptions == {11, 14}
ColumnOptions == {1, 2}

Springfield == <<"Springfield", "Library">>
AdultFiction == <<"Adult", "Fiction">>
JuniorFiction == <<"Junior", "Fiction">>

\* the lines of the parser specification's inputs
ParseAlphabet ==
    {BlankLine,
     StartLine(<<"ABC">>, "301201", 3),
     StartLine(<<>>, "301202", 0),
     TextLine(<<"Smith">>, 5),
     TypeLine(AdultFiction),
     TypeLine(JuniorFiction),
     TypeLine(<<"Childrens", "Book">>),
     SeqLine(<<"Thriller">>),
     LibLine(Springfield, 19)}

ParseInputs == UNION {[1..n -> ParseAlphabet] : n \in 1..MaxLines}

\* the texts typed or pasted into the text area
EmptyText == <<BlankLine>>
GarbageText == <<TextLine(<<"Smith">>, 5)>>
HugeText == <<StartLine(<<"ABC">>, "301201", 3), TextLine(<<"xyz">>, MAX_INPUT_BYTES)>>
SpringfieldText ==
    <<LibLine(Springfield, 19), DateLine("04/03/24"),
      StartLine(<<"ABC">>, "301201", 3), TextLine(<<"Smith">>, 5),
      TypeLine(AdultFiction), SeqLine(<<"Thriller">>), BlankLine,
      StartLine(<<"XYZ">>, "301202", 3), TextLine(<<"Jones">>, 5),
      TypeLine(JuniorFiction), SeqLine(<<>>)>>
LongText ==
    <<LibLine(Springfield, 1800),
      StartLine(<<"ABC">>, "301201", 3), TextLine(<<"Smith">>, 5), TypeLine(AdultFiction),
      StartLine(<<"ABC">>, "301202", 3), TextLine(<<"Smith">>, 2400), TypeLine(AdultFiction),
      StartLine(<<"ABC">>, "301203", 3), TextLine(<<"Smith">>, 5), TypeLine(AdultFiction)>>
Texts == {EmptyText, GarbageText, HugeText, SpringfieldText, LongText}

\* generated reports of the render specification: a library line and entries of
\* these shapes (item type, length of the author line)
EntryShapes ==
    {[type |-> AdultFiction, alen |-> 5], [type |-> AdultFiction, alen |-> 100],
     [type |-> AdultFiction, alen |-> 2400], [type |-> JuniorFiction, alen |-> 5]}

Barcode(i) == CASE i = 1 -> "301201" [] i = 2 -> "301202" [] i = 3 -> "301203"
                [] OTHER -> "301204"

RECURSIVE EntriesText(_, _)
EntriesText(shapes, i) ==
    IF i > Len(shapes) THEN <<>>
    ELSE <<StartLine(<<"ABC">>, Barcode(i), 3), TextLine(<<"Smith">>, shapes[i].alen),
           TypeLine(shapes[i].type)>> \o EntriesText(shapes, i + 1)

Report(libLen, shapes) == <<LibLine(Springfield, libLen)>> \o EntriesText(shapes, 1)

GeneratedReports ==
    {Report(libLen, shapes) :
        libLen \in {19, 1800},
        shapes \in UNION {[1..n -> EntryShapes] : n \in 1..MaxEntries}}

\* characters per line of the full text width in courier at 14 pt
BigPerLine == Layout(14, 1, "courier").maxTextWidth \div Layout(14, 1, "courier").charWidth

\* a report of one entry whose adult document has titleLines title lines and
\* wraps, in courier at 14 pt and one column, to total lines
BigReport(titleLines, total) ==
    Report(titleLines * BigPerLine - 40,
           <<[type |-> AdultFiction, alen |-> (total - titleLines - 4) * BigPerLine]>>)

BigReports ==
    {BigReport(1, MAX_RENDER_LINES), BigReport(1, MAX_RENDER_LINES + 1),
     BigReport(33, MAX_RENDER_LINES), BigReport(33, MAX_RENDER_LINES + 1)}

RenderInputs ==
    {[text |-> t, font |-> "courier", size |-> 14, columns |-> c] :
        t \in GeneratedReports, c \in ColumnOptions}
    \cup {[text |-> t, font |-> "courier", size |-> 14, columns |-> 1] : t \in BigReports}

\* the entries of the sort specification's reports: item type, sequence,
\* shelfmark, author and barcode
SortShape(type, seq, shelf, author, bc) ==
    [type |-> type, seq |-> seq, shelf |-> shelf, author |-> author, bc |-> bc]

SortShapes ==
    {SortShape(<<"Adult", "Non-Fiction">>, <<>>, "XYZ", "Smith", "301201"),
     SortShape(AdultFiction, <<>>, "ABC", "Smith", "301202"),
     SortShape(AdultFiction, <<"Crime">>, "ABC", "Smith", "301201"),
     SortShape(AdultFiction, <<"Thriller">>, "ABC", "Jones", "301201"),
     SortShape(AdultFiction, <<"Romance">>, "ABC", "Smith", "301201"),
     SortShape(<<"adult", "fiction">>, <<>>, "ABC", "Smith", "301201"),
     SortShape(<<"Graphic", "Fiction">>, <<"Thriller">>, "ABC", "Smith", "301201"),
     SortShape(<<"Adult", "Fiction", "DVD">>, <<>>, "ABC", "Jones", "301201"),
     SortShape(JuniorFiction, <<"Romance">>, "ABC", "Smith", "301201")}

RECURSIVE SortReport(_, _)
SortReport(shapes, i) ==
    IF i > Len(shapes) THEN <<>>
    ELSE <<StartLine(<<shapes[i].shelf>>, shapes[i].bc, 3),
           TextLine(<<shapes[i].author>>, 5),
           TypeLine(shapes[i].type),
           SeqLine(shapes[i].seq)>> \o SortReport(shapes, i + 1)

SortInputs ==
    {SortReport(shapes, 1) : shapes \in UNION {[1..n -> SortShapes] : n \in 1..MaxSorted}}

\* the item types and sequences of the classifier specification's reports
ClassifyTypes ==
    {<<>>, AdultFiction, <<"adult", "fiction">>, <<"ADULT", "DVD">>,
     <<"Adult", "Childrens">>, <<"Adults", "Fiction">>, <<"Adults", "Childrens">>,
     JuniorFiction, <<"junior", "Non-Fiction">>, <<"Juniors", "Fiction">>,
     <<"Childrens", "Book">>, <<"Young", "Adult">>, <<"Graphic", "Fiction">>}

ClassifySequences == {<<>>, <<"Thriller">>, <<"Children">>, <<"Childrens", "Book">>,
                      <<"Junior">>}

ClassifyInputs ==
    {<<StartLine(<<"ABC">>, "301201", 3), TextLine(<<"Smith">>, 5), TypeLine(type),
       SeqLine(seq)>> : type \in ClassifyTypes, seq \in ClassifySequences}

-----------------------------------------------------------------------------
(* Initial states *)

FreshUi == [latestResult |-> Null, lastSortedSource |-> NoSource, hidden |-> TRUE,
            status |-> "hidden"]

Snapshot(ui) == [latestResult |-> ui.latestResult,
                 lastSortedSource |-> ui.lastSortedSource, hidden |-> ui.hidden]

Event(name, outcome, pre, changed, needSort) ==
    [name |-> name, outcome |-> outcome, pre |-> Snapshot(pre), changed |-> changed,
     needSort |-> needSort]

SetUi(ui) ==
    /\ latestResult' = ui.latestResult
    /\ lastSortedSource' = ui.lastSortedSource
    /\ downloadsHidden' = ui.hidden
    /\ statusPanel' = ui.status

\* the page as loaded: an empty text area, the saved or default settings, no
\* result, and the download actions hidden as resetDownloads leaves them
Init ==
    /\ sourceText = EmptyText
    /\ pdfFont \in FontOptions
    /\ pdfTextSize \in TextSizeOptions
    /\ pdfColumns \in ColumnOptions
    /\ latestResult = Null
    /\ lastSortedSource = NoSource
    /\ downloadsHidden = TRUE
    /\ statusPanel = "hidden"
    /\ pc = "idle"
    /\ render = NoRender
    /\ pdf = NoPdf
    /\ lastEvent = Event("load", "", FreshUi, FALSE, TRUE)
    /\ pOut = NoParse

\* the page with a text pasted and not sorted yet
InitParse ==
    /\ sourceText \in ParseInputs
    /\ pdfFont = "helvetica"
    /\ pdfTextSize = 11
    /\ pdfColumns = 1
    /\ latestResult = Null
    /\ lastSortedSource = NoSource
    /\ downloadsHidden = TRUE
    /\ statusPanel = "hidden"
    /\ pc = "idle"
    /\ render = NoRender
    /\ pdf = NoPdf
    /\ lastEvent = Event("input", "", FreshUi, TRUE, TRUE)
    /\ pOut = NoParse

\* the page with a report of entries to sort pasted and not sorted yet
InitSort ==
    /\ sourceText \in SortInputs
    /\ pdfFont = "helvetica"
    /\ pdfTextSize = 11
    /\ pdfColumns = 1
    /\ latestResult = Null
    /\ lastSortedSource = NoSource
    /\ downloadsHidden = TRUE
    /\ statusPanel = "hidden"
    /\ pc = "idle"
    /\ render = NoRender
    /\ pdf = NoPdf
    /\ lastEvent = Event("input", "", FreshUi, TRUE, TRUE)
    /\ pOut = NoParse

\* the page with a one-entry report to classify pasted and not sorted yet
InitClassify ==
    /\ sourceText \in ClassifyInputs
    /\ pdfFont = "helvetica"
    /\ pdfTextSize = 11
    /\ pdfColumns = 1
    /\ latestResult = Null
    /\ lastSortedSource = NoSource
    /\ downloadsHidden = TRUE
    /\ statusPanel = "hidden"
    /\ pc = "idle"
    /\ render = NoRender
    /\ pdf = NoPdf
    /\ lastEvent = Event("input", "", FreshUi, TRUE, TRUE)
    /\ pOut = NoParse

\* the page after a report was pasted, the settings chosen and Sort clicked
InitRender ==
    \E in \in RenderInputs :
        LET Sorted(ui) ==
            /\ sourceText = in.text
            /\ pdfFont = in.font
            /\ pdfTextSize = in.size
            /\ pdfColumns = in.columns
            /\ latestResult = ui.latestResult
            /\ lastSortedSource = ui.lastSortedSource
            /\ downloadsHidden = ui.hidden
            /\ statusPanel = ui.status
            /\ pc = "idle"
            /\ render = NoRender
            /\ pdf = NoPdf
            /\ lastEvent = Event("sort", ui.status, FreshUi, FALSE, ui.status # "ok")
            /\ pOut = NoParse
        IN Sorted(OnSortClick(FreshUi, in.text))

-----------------------------------------------------------------------------
(* Handlers.  A handler runs to completion: no other handler starts while      *)
(* downloadPdf is placing blocks (pc # "idle").                                *)

settings == <<pdfFont, pdfTextSize, pdfColumns>>

Idle == /\ pc' = "idle" /\ render' = NoRender /\ pdf' = NoPdf /\ pOut' = NoParse

\* the user edits the text area; the input listener runs
SourceInput ==
    /\ pc = "idle"
    /\ \E value \in Texts :
        /\ sourceText' = value
        /\ SetUi(OnSourceInput(Ui, value))
        /\ lastEvent' = Event("input", "", Ui, value # sourceText,
                              lastEvent.needSort \/ value # sourceText)
    /\ Idle
    /\ UNCHANGED settings

\* the user picks another text size
TextSizeChange ==
    /\ pc = "idle"
    /\ \E value \in TextSizeOptions \ {pdfTextSize} : pdfTextSize' = value
    /\ SetUi(OnTextSizeChange(Ui))
    /\ lastEvent' = Event("textSize", "", Ui, TRUE, TRUE)
    /\ Idle
    /\ UNCHANGED <<sourceText, pdfFont, pdfColumns>>

\* the user picks another font
FontChange ==
    /\ pc = "idle"
    /\ \E value \in FontOptions \ {pdfFont} : pdfFont' = value
    /\ SetUi(OnFontChange(Ui))
    /\ lastEvent' = Event("font", "", Ui, TRUE, TRUE)
    /\ Idle
    /\ UNCHANGED <<sourceText, pdfTextSize, pdfColumns>>

\* the user picks another column count
ColumnsChange ==
    /\ pc = "idle"
    /\ \E value \in ColumnOptions \ {pdfColumns} : pdfColumns' = value
    /\ SetUi(OnColumnsChange(Ui))
    /\ lastEvent' = Event("columns", "", Ui, TRUE, TRUE)
    /\ Idle
    /\ UNCHANGED <<sourceText, pdfFont, pdfTextSize>>

\* what the sort handler computed on its way: the ParseResult or Error of
\* parseList and the two sorted lists of buildSortedLists
ParseOutcome(source) ==
    LET Details(parsed) ==
            [called |-> TRUE, parsed |-> parsed,
             adultEntries |-> AdultEntries(parsed),
             juniorEntries |-> JuniorEntries(parsed)]
    IN IF SortCallsParse(source) THEN Details(ParseList(source)) ELSE NoParse

\* the user clicks Sort
SortClick ==
    /\ pc = "idle"
    /\ SetUi(OnSortClick(Ui, sourceText))
    /\ lastEvent' = Event("sort", statusPanel', Ui, FALSE, statusPanel' # "ok")
    /\ pOut' = ParseOutcome(sourceText)
    /\ pc' = "idle"
    /\ render' = NoRender
    /\ pdf' = NoPdf
    /\ UNCHANGED <<sourceText, settings>>

\* downloadPdf up to its first block: the layout, the wrapped lines, the line cap,
\* the first page and its title
BeginDownload(fileName, docModel) ==
    LET lay == Layout(GetPdfTextSize(pdfTextSize), GetPdfColumns(pdfColumns),
                      GetPdfFontFamily(pdfFont))
        titleLines == WrapCount(docModel.title, lay.maxTextWidth, lay.maxTextWidth,
                                lay.charWidth)
        wrappedBlocks == WrapBlocks(docModel.blocks, lay)
        totalWrappedLines == TotalWrappedLines(wrappedBlocks, titleLines)
        start == StartNewPage(titleLines, lay)
        common == [NoRender EXCEPT !.fileName = fileName, !.lay = lay,
                                   !.blocks = wrappedBlocks, !.titleLines = titleLines,
                                   !.total = totalWrappedLines]
        doc == [NoPdf EXCEPT !.pages = 1,
                             !.drawnTo = [b \in 1..Len(wrappedBlocks) |-> 0],
                             !.trimmed = [b \in 1..Len(wrappedBlocks) |-> 0]]
    IN IF ExceedsLineCap(totalWrappedLines)
       THEN /\ render' = [common EXCEPT !.outcome = "line cap"]
            /\ pdf' = doc
            /\ statusPanel' = "error: too many lines"
            /\ pc' = "idle"
       ELSE /\ render' = [common EXCEPT !.outcome = "running", !.y = start.y,
                                        !.columnIndex = start.columnIndex,
                                        !.contentStartY = start.contentStartY,
                                        !.b = 1]
            /\ pdf' = [doc EXCEPT !.titles = 1]
            /\ statusPanel' = statusPanel
            /\ pc' = "block"

\* a download listener whose render takes the blocks out of the cached document
DownloadClickConsumesDoc(name, fileName, audience) ==
    /\ pc = "idle"
    /\ IF DownloadAllowed(Ui)
       THEN /\ BeginDownload(fileName, IF audience = "adult" THEN latestResult.adultDoc
                                       ELSE latestResult.juniorDoc)
            /\ lastEvent' = Event(name, "downloadPdf", Ui, FALSE, lastEvent.needSort)
            /\ latestResult' = IF audience = "adult"
                               THEN [latestResult EXCEPT !.adultDoc.blocks = <<>>]
                               ELSE [latestResult EXCEPT !.juniorDoc.blocks = <<>>]
       ELSE /\ statusPanel' = "error: reload the page"
            /\ pc' = "idle"
            /\ render' = NoRender
            /\ pdf' = NoPdf
            /\ lastEvent' = Event(name, "refused", Ui, FALSE, lastEvent.needSort)
            /\ latestResult' = latestResult
    /\ pOut' = NoParse
    /\ UNCHANGED <<sourceText, settings, lastSortedSource, downloadsHidden>>

\* a download listener
DownloadClick(name, fileName, audience) ==
    /\ pc = "idle"
    /\ IF DownloadAllowed(Ui)
       THEN /\ BeginDownload(fileName, IF audience = "adult" THEN latestResult.adultDoc
                                       ELSE latestResult.juniorDoc)
            /\ lastEvent' = Event(name, "downloadPdf", Ui, FALSE, lastEvent.needSort)
       ELSE /\ statusPanel' = "error: reload the page"
            /\ pc' = "idle"
            /\ render' = NoRender
            /\ pdf' = NoPdf
            /\ lastEvent' = Event(name, "refused", Ui, FALSE, lastEvent.needSort)
    /\ pOut' = NoParse
    /\ UNCHANGED <<sourceText, settings, latestResult, lastSortedSource, downloadsHidden>>

\* the user clicks "download adult list"
DownloadAdultClick == DownloadClick("downloadAdult", "adult-list.pdf", "adult")

\* the user clicks "download junior list"
DownloadJuniorClick == DownloadClick("downloadJunior", "junior-list.pdf", "junior")

page == <<sourceText, settings, latestResult, lastSortedSource, downloadsHidden,
          lastEvent, pOut>>

\* the head of the block loop: linesToDraw and the choice of placement
BeginBlock ==
    /\ pc = "block"
    /\ render.b <= Len(render.blocks)
    /\ LET lines == render.blocks[render.b].lines
           toDraw == LinesToDraw(lines, render.y, render.lay)
       IN /\ render' = [render EXCEPT !.toDraw = toDraw, !.i = 1,
                           !.mode = IF IsOversized(toDraw, render.lay) THEN "lines"
                                    ELSE "whole"]
          /\ pdf' = [pdf EXCEPT !.trimmed[render.b] = LineCount(lines) - toDraw]
          /\ pc' = IF IsOversized(toDraw, render.lay) THEN "line" ELSE "fit"
    /\ UNCHANGED <<page, statusPanel>>

\* the line or block does not fit: advanceColumnOrPage, and the return when it
\* aborted the render
Advance ==
    /\ pc \in {"line", "fit"}
    /\ IF pc = "line" THEN LineOverflows(render) ELSE BlockOverflows(render)
    /\ LET a == AdvanceColumnOrPage(render, pdf.pages) IN
       IF a.aborted
       THEN /\ render' = [render EXCEPT !.renderAborted = TRUE, !.outcome = "aborted"]
            /\ pdf' = pdf
            /\ statusPanel' = "error: too many pages"
            /\ pc' = "idle"
       ELSE /\ render' = [render EXCEPT !.columnIndex = a.columnIndex, !.y = a.y,
                                        !.contentStartY = a.contentStartY]
            /\ pdf' = [pdf EXCEPT !.pages = a.pages,
                                  !.titles = IF a.pages > pdf.pages THEN @ + 1 ELSE @,
                                  !.colTop = "none",
                                  !.colEntry = [kind |-> IF a.moved THEN "page" ELSE "column",
                                                block |-> render.b]]
            /\ statusPanel' = statusPanel
            /\ pc' = IF NeedsContinuedHeading(a.moved, render.blocks[render.b])
                     THEN "heading" ELSE "draw"
    /\ UNCHANGED page

\* drawContinuedSectionHeading
DrawContinuedSectionHeading ==
    /\ pc = "heading"
    /\ LET n == ContinuedHeadingLines(render.blocks[render.b].sectionHeading, render.lay)
       IN /\ render' = [render EXCEPT !.y = @ + n * render.lay.lineHeight]
          /\ pdf' = [pdf EXCEPT !.contHeadings = @ + 1,
                                !.colTop = IF @ = "none" THEN "cont" ELSE @]
    /\ pc' = "draw"
    /\ UNCHANGED <<page, statusPanel>>

\* after the last line of a block: the next block
NextBlock(r) == [r EXCEPT !.b = @ + 1, !.mode = "", !.toDraw = 0, !.i = 0]

\* drawOneLine, for line i of an oversized block
DrawOneLine ==
    /\ \/ pc = "line" /\ ~LineOverflows(render)
       \/ pc = "draw" /\ render.mode = "lines"
    /\ pdf' = Drawn(pdf, render, render.i, render.i, FALSE)
    /\ LET r == [render EXCEPT !.y = @ + render.lay.lineHeight, !.i = @ + 1] IN
       IF r.i > render.toDraw
       THEN render' = NextBlock(r) /\ pc' = "block"
       ELSE render' = r /\ pc' = "line"
    /\ UNCHANGED <<page, statusPanel>>

\* drawWrappedLines(linesToDraw) for a block placed as a whole
PlaceBlock ==
    /\ \/ pc = "fit" /\ ~BlockOverflows(render)
       \/ pc = "draw" /\ render.mode = "whole"
    /\ pdf' = IF render.toDraw > 0 THEN Drawn(pdf, render, 1, render.toDraw, TRUE) ELSE pdf
    /\ render' = NextBlock([render EXCEPT !.y = @ + render.toDraw * render.lay.lineHeight])
    /\ pc' = "block"
    /\ UNCHANGED <<page, statusPanel>>

\* after the last block: the footers, then doc.save
FinishRender ==
    /\ pc = "block"
    /\ render.b > Len(render.blocks)
    /\ IF render.renderAborted
       THEN pdf' = pdf /\ render' = render
       ELSE /\ pdf' = [pdf EXCEPT !.footers = Len(WriteFooters(pdf.pages)),
                                  !.footerText = WriteFooters(pdf.pages),
                                  !.saved = TRUE]
            /\ render' = [render EXCEPT !.outcome = "saved"]
    /\ pc' = "idle"
    /\ UNCHANGED <<page, statusPanel>>

RenderStep ==
    \/ BeginBlock
    \/ Advance
    \/ DrawContinuedSectionHeading
    \/ DrawOneLine
    \/ PlaceBlock
    \/ FinishRender

Next ==
    \/ SourceInput
    \/ TextSizeChange
    \/ FontChange
    \/ ColumnsChange
    \/ SortClick
    \/ DownloadAdultClick
    \/ DownloadJuniorClick
    \/ RenderStep

NextParse == SortClick

NextRender == DownloadAdultClick \/ DownloadJuniorClick \/ RenderStep

Spec == Init /\ [][Next]_vars
SpecParse == InitParse /\ [][NextParse]_vars
SpecRender == InitRender /\ [][NextRender]_vars
SpecSort == InitSort /\ [][NextParse]_vars
SpecClassify == InitClassify /\ [][NextParse]_vars

-----------------------------------------------------------------------------
(* Properties *)

\* the handler that ran last was the sort handler and it called parseList
SortParsed == lastEvent.name = "sort" /\ pOut.called

\* the handler that ran last was the sort handler and it rejected its input
SortRejected == lastEvent.name = "sort" /\ ~pOut.called

\* C1: for every ParseResult of parseList, buildSortedLists returns adultCount +
\* juniorCount = originalCount, and the originalIndex values of the adult and of
\* the junior entries are disjoint and together those of all entries.
C1_PartitionIsExact ==
    (SortParsed /\ pOut.parsed.ok) =>
        /\ latestResult # Null
        /\ latestResult.originalCount = Len(pOut.parsed.entries)
        /\ latestResult.adultCount = Len(pOut.adultEntries)
        /\ latestResult.juniorCount = Len(pOut.juniorEntries)
        /\ latestResult.adultCount + latestResult.juniorCount
             = latestResult.originalCount
        /\ Cardinality(IndexSet(pOut.adultEntries)) = Len(pOut.adultEntries)
        /\ Cardinality(IndexSet(pOut.juniorEntries)) = Len(pOut.juniorEntries)
        /\ IndexSet(pOut.adultEntries) \cap IndexSet(pOut.juniorEntries) = {}
        /\ IndexSet(pOut.adultEntries) \cup IndexSet(pOut.juniorEntries)
             = IndexSet(pOut.parsed.entries)

\* C1 witness: a sorted report with entries of both audiences
C1_BothAudiences ==
    /\ SortParsed /\ pOut.parsed.ok
    /\ latestResult # Null
    /\ latestResult.adultCount >= 1
    /\ latestResult.juniorCount >= 1

\* the entry-start lines of a text, in source order
EntryStarts(lines) == SelectSeq(lines, IsEntryStart)

\* C2: for a text with N >= 1 entry-start lines, parseList returns exactly N
\* entries, entry i having originalIndex i-1 and starting at the i-th entry-start
\* line, or throws the integrity error citing N and a smaller parsed count.
C2_ParsesEveryEntry ==
    (SortParsed /\ Len(EntryStarts(sourceText)) >= 1) =>
        LET N == Len(EntryStarts(sourceText)) IN
        \/ /\ pOut.parsed.ok
           /\ Len(pOut.parsed.entries) = N
           /\ \A i \in 1..N :
                /\ pOut.parsed.entries[i].originalIndex = i - 1
                /\ pOut.parsed.entries[i].rawLines[1] = EntryStarts(sourceText)[i]
        \/ /\ ~pOut.parsed.ok
           /\ pOut.parsed.error = "Integrity"
           /\ pOut.parsed.detected = N
           /\ pOut.parsed.parsed < N

\* C2 witness: a text of two entries, one of them with a continuation line
C2_TwoEntries ==
    /\ SortParsed /\ pOut.parsed.ok
    /\ Len(pOut.parsed.entries) = 2
    /\ \E i \in 1..2 : Len(pOut.parsed.entries[i].rawLines) >= 2

\* C4: once the text (to another value) or a layout setting was changed, and until
\* a sort succeeds again, latestResult is null, the download actions are hidden
\* and no download click calls downloadPdf.
C4_ChangeInvalidates ==
    lastEvent.needSort =>
        /\ latestResult = Null
        /\ downloadsHidden
        /\ pc = "idle"
        /\ render.outcome = "none"
        /\ ~pdf.saved

\* C4 witness: the text or a setting was changed on a sorted list, whose result
\* is gone
C4_ChangedAfterSort ==
    /\ lastEvent.name \in {"input", "textSize", "font", "columns"}
    /\ lastEvent.changed
    /\ lastEvent.pre.latestResult # Null
    /\ ~lastEvent.pre.hidden
    /\ latestResult = Null

\* C5: after a sort click whose parse failed, latestResult is null,
\* lastSortedSource is null and the download actions are hidden.
C5_FailedParseLeavesNothing ==
    (SortParsed /\ ~pOut.parsed.ok) =>
        /\ latestResult = Null
        /\ lastSortedSource = NoSource
        /\ downloadsHidden
        /\ statusPanel = "error: sort failed"

\* C5 witness: a sort click on a text without any entry-start line
C5_NoEntriesFound ==
    /\ SortParsed
    /\ ~pOut.parsed.ok
    /\ pOut.parsed.error = "NoEntries"

\* C6: a sort click on a blank text, or on one above the byte cap, reports the
\* rejection without calling parseList and leaves latestResult, lastSortedSource
\* and the visibility of the download actions as they were before the click.
C6_RejectionChangesNothing ==
    (/\ lastEvent.name = "sort"
     /\ (IsBlankText(sourceText) \/ TextBytes(sourceText) > MAX_INPUT_BYTES)) =>
        /\ ~pOut.called
        /\ statusPanel = IF IsBlankText(sourceText) THEN "error: paste a list"
                         ELSE "error: input too large"
        /\ latestResult = lastEvent.pre.latestResult
        /\ lastSortedSource = lastEvent.pre.lastSortedSource
        /\ downloadsHidden = lastEvent.pre.hidden

\* C6 witness: a sort click on a text above the byte cap
C6_TooLargeRejected ==
    /\ SortRejected
    /\ ~IsBlankText(sourceText)
    /\ TextBytes(sourceText) > MAX_INPUT_BYTES
    /\ statusPanel = "error: input too large"

\* a downloadPdf call has returned
RenderReturned == pc = "idle" /\ render.outcome # "none"

\* the call was refused at the line cap: nothing was placed, nothing saved
RefusedAtLineCap ==
    /\ render.outcome = "line cap"
    /\ statusPanel = "error: too many lines"
    /\ pdf.titles = 0
    /\ \A b \in 1..Len(pdf.drawnTo) : pdf.drawnTo[b] = 0
    /\ pdf.contHeadings = 0
    /\ pdf.footers = 0
    /\ ~pdf.saved

\* C7 as stated: a document of exactly MAX_RENDER_LINES wrapped lines is rendered
\* and saved; one of a line more is refused, nothing placed and nothing saved.
C7_AtCapAlwaysSaved ==
    RenderReturned =>
        /\ render.total = MAX_RENDER_LINES => (render.outcome = "saved" /\ pdf.saved)
        /\ render.total = MAX_RENDER_LINES + 1 => RefusedAtLineCap

\* C7 amended: a document of exactly MAX_RENDER_LINES wrapped lines passes the line
\* cap and is rendered and saved unless the page cap aborts the render; one of a
\* line more is refused, nothing placed and nothing saved.
C7_AtCapPassesLineCap ==
    /\ render.total = MAX_RENDER_LINES => render.outcome # "line cap"
    /\ RenderReturned =>
        /\ (render.total = MAX_RENDER_LINES /\ ~render.renderAborted)
             => (render.outcome = "saved" /\ pdf.saved)
        /\ (render.total = MAX_RENDER_LINES /\ render.renderAborted)
             => (pdf.pages = MAX_PDF_PAGES /\ ~pdf.saved)
        /\ render.total = MAX_RENDER_LINES + 1 => RefusedAtLineCap

\* C7 witness: a document of exactly MAX_RENDER_LINES wrapped lines was saved
C7_AtCapSaved ==
    /\ RenderReturned
    /\ render.total = MAX_RENDER_LINES
    /\ pdf.saved
    /\ pdf.footers = pdf.pages

\* C8: the document never has more than MAX_PDF_PAGES pages; a render that needs
\* one more is aborted: it returns at once, with no footer written and no save.
C8_PageCapAborts ==
    /\ pdf.pages <= MAX_PDF_PAGES
    /\ render.renderAborted =>
        /\ pc = "idle"
        /\ render.outcome = "aborted"
        /\ statusPanel = "error: too many pages"
        /\ pdf.pages = MAX_PDF_PAGES
        /\ pdf.footers = 0
        /\ ~pdf.saved

\* C8 witness: a render aborted at the page cap after lines were drawn
C8_AbortedAtPageCap ==
    /\ render.renderAborted
    /\ pdf.pages = MAX_PDF_PAGES
    /\ pdf.lastDraw.page = MAX_PDF_PAGES

\* C9: when doc.save is reached, the lines of every block were drawn once each and
\* in order, all of them but trailing blank lines trimmed to make the block fit.
C9_NothingTruncated ==
    pdf.saved =>
        /\ pdf.inOrder
        /\ \A b \in 1..Len(render.blocks) :
            /\ pdf.drawnTo[b] = LineCount(render.blocks[b].lines) - pdf.trimmed[b]
            /\ pdf.trimmed[b] >= 0
            /\ pdf.trimmed[b] <= CountTrailingBlankLines(render.blocks[b].lines)

\* C9 witness: a saved document of several blocks, one drawn without its trailing
\* blank line and one placed line by line
C9_SavedWithTrimmedBlock ==
    /\ pdf.saved
    /\ Len(render.blocks) >= 2
    /\ \E b \in 1..Len(render.blocks) : pdf.trimmed[b] > 0
    /\ \E b \in 1..Len(render.blocks) :
          LineCount(render.blocks[b].lines) * render.lay.lineHeight
             > render.lay.usableHeight

\* the column in which the cursor stands was entered by an advance that the
\* placement of a block without a heading of its own forced, and something was
\* drawn in it
EnteredByContinuation(kinds) ==
    /\ render.outcome # "none"
    /\ pdf.colEntry.kind \in kinds
    /\ ~render.blocks[pdf.colEntry.block].hasHeading
    /\ pdf.colTop # "none"

EntrySet(entries) == {entries[i] : i \in 1..Len(entries)}

\* the orders in which the entries of a list can be handed to the sort
Shuffles(entries) ==
    {[i \in 1..Len(entries) |-> entries[f[i]]] : f \in Permutations(1..Len(entries))}

\* compareEntries is a strict total order on the entries of a list, and sorting
\* them from any order gives that list
StrictlyOrdered(part) ==
    /\ \A a, b \in EntrySet(part) :
          a.originalIndex # b.originalIndex =>
              /\ CompareEntries(a, b) # 0
              /\ (CompareEntries(a, b) < 0) = (CompareEntries(b, a) > 0)
    /\ \A a \in EntrySet(part) : CompareEntries(a, a) = 0
    /\ \A a, b, c \in EntrySet(part) :
          (CompareEntries(a, b) < 0 /\ CompareEntries(b, c) < 0)
              => CompareEntries(a, c) < 0
    /\ \A i, j \in 1..Len(part) : i < j => CompareEntries(part[i], part[j]) < 0
    /\ \A shuffled \in Shuffles(part) : SortEntries(shuffled) = part

\* C11: compareEntries is a strict total order on the entries of a partition
\* (antisymmetric, transitive, never 0 for two different originalIndex), so the
\* sort of the same entries from any order, or of the sorted list again, is the
\* same sequence.
C11_SortIsDeterministic ==
    (SortParsed /\ pOut.parsed.ok) =>
        /\ StrictlyOrdered(pOut.adultEntries)
        /\ StrictlyOrdered(pOut.juniorEntries)

\* C11 witness: three adult entries, two of them equal in every key but the
\* original index, sorted into another order than the source's
C11_TieBrokenByIndex ==
    /\ SortParsed /\ pOut.parsed.ok
    /\ Len(pOut.adultEntries) = 3
    /\ pOut.adultEntries # pOut.parsed.entries
    /\ \E i \in 1..2 :
          /\ pOut.adultEntries[i].rawLines = pOut.adultEntries[i + 1].rawLines
          /\ pOut.adultEntries[i].originalIndex < pOut.adultEntries[i + 1].originalIndex

\* the words of an item type, in lower case
TypeWords(itemType) == [i \in 1..Len(itemType) |-> Lower(itemType[i])]

\* the bucket of an item type as the shelving rule names it: 0 adult or junior
\* non-fiction, 1 adult or junior fiction, 2 graphic fiction, 3 anything with the
\* word dvd and everything else
ShelvingBucket(itemType) ==
    LET words == TypeWords(itemType)
        StartsWith(second) ==
            Len(words) >= 2 /\ words[1] \in {"adult", "junior"} /\ words[2] = second
    IN IF \E i \in 1..Len(words) : words[i] = "dvd" THEN 3
       ELSE IF StartsWith("non-fiction") THEN 0
       ELSE IF StartsWith("fiction") THEN 1
       ELSE IF \E i \in 1..(Len(words) - 1) :
                  words[i] = "graphic" /\ words[i + 1] = "fiction" THEN 2
       ELSE 3

\* the entries of a sorted list come bucket by bucket
InBucketOrder(part) ==
    \A i, j \in 1..Len(part) :
        i < j => ShelvingBucket(part[i].itemType) <= ShelvingBucket(part[j].itemType)

\* C12: within a partition the type bucket is the first sort key: the entries of
\* bucket 0 come before those of bucket 1, these before those of bucket 2, these
\* before those of bucket 3, whatever their other keys are.
C12_BucketIsPrimaryKey ==
    (SortParsed /\ pOut.parsed.ok) =>
        /\ InBucketOrder(pOut.adultEntries)
        /\ InBucketOrder(pOut.juniorEntries)

\* C12 witness: a dvd, a graphic fiction and a non-fiction entry, in this order in
\* the source, sorted into the order of their buckets
C12_ThreeBucketsReordered ==
    /\ SortParsed /\ pOut.parsed.ok
    /\ Len(pOut.adultEntries) = 3
    /\ [i \in 1..3 |-> ShelvingBucket(pOut.parsed.entries[i].itemType)] = <<3, 2, 0>>
    /\ [i \in 1..3 |-> ShelvingBucket(pOut.adultEntries[i].itemType)] = <<0, 2, 3>>
    /\ pOut.adultEntries[3].itemType = <<"Adult", "Fiction", "DVD">>

\* the sequence under which the shelf policy files an entry: for the item type
\* "Adult Fiction", Thriller with Crime, and Historical, Romance, Saga, Horror and
\* Western with the blank sequence; for any other item type, the sequence itself
FiledUnder(entry) ==
    IF TypeWords(entry.itemType) # <<"adult", "fiction">> THEN entry.sequence
    ELSE IF TypeWords(entry.sequence) \in {<<"thriller">>, <<"crime">>} THEN <<"Crime">>
    ELSE IF TypeWords(entry.sequence) \in {<<"historical">>, <<"romance">>, <<"saga">>,
                                           <<"horror">>, <<"western">>}
         THEN <<>>
    ELSE entry.sequence

\* the blocks of a document put every entry in the section of its item type and
\* of the sequence it is filed under, and open no section between two adjacent
\* entries of the same section
SectionsFollowPolicy(entries, blocks) ==
    /\ Len(blocks) = Len(entries)
    /\ \A i \in 1..Len(entries) :
          blocks[i].sectionHeading.text
             = entries[i].itemType \o <<"-">> \o FiledUnder(entries[i])
    /\ \A i \in 1..(Len(entries) - 1) :
          (/\ entries[i].itemType = entries[i + 1].itemType
           /\ FiledUnder(entries[i]) = FiledUnder(entries[i + 1]))
              => /\ ~blocks[i + 1].hasHeading
                 /\ blocks[i + 1].sectionHeading = blocks[i].sectionHeading

\* C13: an "Adult Fiction" entry of sequence Thriller is placed in the section of
\* those of sequence Crime, one of sequence Historical, Romance, Saga, Horror or
\* Western in the section of those with a blank sequence, with no section boundary
\* between two such adjacent entries; any other item type keeps its sequence.
C13_ShelfPolicySections ==
    (SortParsed /\ pOut.parsed.ok) =>
        /\ latestResult # Null
        /\ SectionsFollowPolicy(pOut.adultEntries, latestResult.adultDoc.blocks)
        /\ SectionsFollowPolicy(pOut.juniorEntries, latestResult.juniorDoc.blocks)

\* C13 witness: a Romance, a Thriller and a Crime entry of "Adult Fiction": the
\* first under the heading of the blank sequence, the other two in one section
C13_ThrillerWithCrime ==
    /\ SortParsed /\ pOut.parsed.ok
    /\ latestResult # Null
    /\ Len(pOut.adultEntries) = 3
    /\ \A i \in 1..3 : pOut.adultEntries[i].itemType = AdultFiction
    /\ pOut.adultEntries[1].sequence = <<"Romance">>
    /\ {pOut.adultEntries[2].sequence, pOut.adultEntries[3].sequence}
          = {<<"Thriller">>, <<"Crime">>}
    /\ latestResult.adultDoc.blocks[1].sectionHeading.text = <<"Adult", "Fiction", "-">>
    /\ latestResult.adultDoc.blocks[2].hasHeading
    /\ ~latestResult.adultDoc.blocks[3].hasHeading

\* a text starts with the letters "adult" / "junior", in any case
StartsWithAdult(text) == Len(text) >= 1 /\ Lower(text[1]) \in {"adult", "adults"}
StartsWithJunior(text) == Len(text) >= 1 /\ Lower(text[1]) \in {"junior", "juniors"}

\* the first word of a text is "adult" / "junior", in any case
FirstWordIsAdult(text) == Len(text) >= 1 /\ Lower(text[1]) = "adult"
FirstWordIsJunior(text) == Len(text) >= 1 /\ Lower(text[1]) = "junior"

\* a text contains "children", in any case
ContainsChildren(text) ==
    \E i \in 1..Len(text) : Lower(text[i]) \in {"children", "childrens"}

\* the audience the rules give, in their precedence
AudienceByRules(isAdult, isJunior, hasChildren) ==
    IF isAdult THEN "adult"
    ELSE IF isJunior THEN "junior"
    ELSE IF hasChildren THEN "junior"
    ELSE "adult"

\* C14 as stated: the audience of an entry is adult when its item type starts with
\* "adult", junior when it starts with "junior", else junior when item type or
\* sequence contains "children", else adult.
C14_AudienceByPrefix ==
    (SortParsed /\ pOut.parsed.ok) =>
        \A i \in 1..Len(pOut.parsed.entries) :
            LET e == pOut.parsed.entries[i] IN
            e.audience = AudienceByRules(StartsWithAdult(e.itemType),
                                         StartsWithJunior(e.itemType),
                                         ContainsChildren(e.itemType)
                                            \/ ContainsChildren(e.sequence))

\* C14 amended: the audience of an entry is adult when its item type starts with
\* the word "adult", junior when it starts with the word "junior", else junior
\* when item type or sequence contains "children", else adult.
C14_AudienceByFirstWord ==
    (SortParsed /\ pOut.parsed.ok) =>
        \A i \in 1..Len(pOut.parsed.entries) :
            LET e == pOut.parsed.entries[i] IN
            e.audience = AudienceByRules(FirstWordIsAdult(e.itemType),
                                         FirstWordIsJunior(e.itemType),
                                         ContainsChildren(e.itemType)
                                            \/ ContainsChildren(e.sequence))

\* C14 witness: an entry of item type "Adult Childrens" and of a sequence with
\* "Childrens" in it, classified adult
C14_AdultBeforeChildren ==
    /\ SortParsed /\ pOut.parsed.ok
    /\ pOut.parsed.entries[1].itemType = <<"Adult", "Childrens">>
    /\ pOut.parsed.entries[1].sequence = <<"Childrens", "Book">>
    /\ pOut.parsed.entries[1].audience = "adult"

\* the last call of drawWrappedLines drew a whole block
WholeBlockDrawn == pdf.lastDraw.block > 0 /\ pdf.lastDraw.whole

\* the height of the lines the last call of drawWrappedLines drew
LastDrawHeight == (pdf.lastDraw.to - pdf.lastDraw.from + 1) * render.lay.lineHeight

\* C15: a block placed as a whole fits where it is drawn: its height is at most
\* the remaining space of the column plus the fit slack, also right after a
\* column or page advance and after a continued heading.
C15_WholeBlockFits ==
    WholeBlockDrawn =>
        LastDrawHeight <= (render.lay.usableHeight - pdf.lastDraw.y) + render.lay.fitSlack

\* C16: in a column entered by a column or page flip, the first line drawn is a
\* heading: the section heading of the block placed there, or a "(cont.)" heading;
\* entry content is never the first line of such a column.
C16_HeadingTopsEveryColumn ==
    (pdf.colEntry.kind \in {"column", "page"} /\ pdf.colTop # "none") =>
        pdf.colTop \in {"heading", "cont"}

\* the space a block may take at y: the rest of the column and the fit slack
RoomAt(y, lay) == (lay.usableHeight - y) + lay.fitSlack

\* only without its trailing blank lines does a block fit at y
FitsOnlyTrimmed(lines, y, lay) ==
    /\ LineCount(lines) * lay.lineHeight > RoomAt(y, lay)
    /\ (LineCount(lines) - CountTrailingBlankLines(lines)) * lay.lineHeight
          <= RoomAt(y, lay)

\* C17: a block whose full height exceeds the remaining space and the fit slack,
\* and whose height without its trailing blank lines does not, is drawn without
\* them in the current column, with no column or page advance; a block that fits
\* in full, or does not fit even trimmed, keeps all its lines.
C17_TrimmedOnlyToFit ==
    [][/\ (pc = "block" /\ pc' \in {"fit", "line"}) =>
            IF FitsOnlyTrimmed(render.blocks[render.b].lines, render.y, render.lay)
            THEN /\ render'.toDraw = LineCount(render.blocks[render.b].lines)
                      - CountTrailingBlankLines(render.blocks[render.b].lines)
                 /\ pdf'.trimmed[render.b]
                      = CountTrailingBlankLines(render.blocks[render.b].lines)
                 /\ pc' = "fit"
                 /\ ~BlockOverflows(render')
            ELSE /\ render'.toDraw = LineCount(render.blocks[render.b].lines)
                 /\ pdf'.trimmed[render.b] = 0
       /\ (pc = "fit" /\ pdf.trimmed[render.b] > 0) =>
            /\ pc' = "block"
            /\ pdf'.pages = pdf.pages
            /\ pdf'.lastDraw = [block |-> render.b, from |-> 1, to |-> render.toDraw,
                                page |-> pdf.pages, col |-> render.columnIndex,
                                y |-> render.y, whole |-> TRUE]
            /\ pdf'.drawnTo[render.b] = render.toDraw
      ]_vars

\* C17 witness: a block was just drawn without its trailing blank lines at a place
\* where it would not have fitted with them
C17_DrawnTrimmed ==
    /\ WholeBlockDrawn
    /\ pc = "block"
    /\ render.b = pdf.lastDraw.block + 1
    /\ pdf.trimmed[pdf.lastDraw.block] > 0
    /\ FitsOnlyTrimmed(render.blocks[pdf.lastDraw.block].lines, pdf.lastDraw.y,
                       render.lay)
    /\ pdf.lastDraw.to = LineCount(render.blocks[pdf.lastDraw.block].lines)
                            - pdf.trimmed[pdf.lastDraw.block]

\* the rawLines of entries i, i+1, ... one after the other
RECURSIVE RawLinesFrom(_, _)
RawLinesFrom(entries, i) ==
    IF i > Len(entries) THEN <<>>
    ELSE entries[i].rawLines \o RawLinesFrom(entries, i + 1)

\* the lines of a text from its first entry-start line on
FromFirstEntry(lines) ==
    LET first == CHOOSE i \in 1..Len(lines) :
                    /\ IsEntryStart(lines[i])
                    /\ \A j \in 1..(i - 1) : ~IsEntryStart(lines[j])
    IN SubSeq(lines, first, Len(lines))

\* C18: in a ParseResult, the rawLines of every entry are an entry-start line
\* followed by lines that start no entry, and the rawLines of all entries, in
\* entry order, are the lines of the input from its first entry-start line to its
\* end, blank lines included.
C18_RawLinesCoverInput ==
    (SortParsed /\ pOut.parsed.ok) =>
        /\ \A i \in 1..Len(pOut.parsed.entries) :
              LET rawLines == pOut.parsed.entries[i].rawLines IN
              /\ Len(rawLines) >= 1
              /\ IsEntryStart(rawLines[1])
              /\ \A j \in 2..Len(rawLines) : ~IsEntryStart(rawLines[j])
        /\ RawLinesFrom(pOut.parsed.entries, 1) = FromFirstEntry(sourceText)

\* C18 witness: a text with a header line, then two entries, the first of them
\* with a blank line
C18_HeaderAndBlankLine ==
    /\ SortParsed /\ pOut.parsed.ok
    /\ ~IsEntryStart(sourceText[1])
    /\ Len(pOut.parsed.entries) = 2
    /\ Len(pOut.parsed.entries[1].rawLines) = 2
    /\ pOut.parsed.entries[1].rawLines[2].k = "blank"

\* the last downloadPdf call failed at the line cap or at the page cap
FailedAtRenderLimit == pc = "idle" /\ render.outcome \in {"line cap", "aborted"}

AllContentPlaced ==
    \A b \in 1..Len(render.blocks) :
        pdf.drawnTo[b] = LineCount(render.blocks[b].lines) - pdf.trimmed[b]

\* C20: footers are written only once all content is placed and the render was not
\* aborted; then each page X of the Y pages of the document has exactly one
\* footer, "Page X of Y".
C20_FootersAfterContent ==
    /\ pdf.footerText # <<>> =>
          /\ AllContentPlaced
          /\ ~render.renderAborted
          /\ render.b > Len(render.blocks)
    /\ render.outcome \in {"line cap", "aborted"} => pdf.footerText = <<>>
    /\ (RenderReturned /\ render.outcome \notin {"line cap", "aborted"}) =>
          /\ pdf.saved
          /\ Len(pdf.footerText) = pdf.pages
          /\ \A X \in 1..pdf.pages : pdf.footerText[X] = <<[x |-> X, y |-> pdf.pages]>>

\* C20 witness: a saved document of several pages, the last of them with its footer
C20_FootersOnSeveralPages ==
    /\ RenderReturned
    /\ pdf.saved
    /\ pdf.pages >= 2
    /\ pdf.footerText[pdf.pages] = <<[x |-> pdf.pages, y |-> pdf.pages]>>

\* draw e is at or after the place where draw d ended: a later page, a later
\* column of the page, or further down the column
CursorNotBefore(d, e, lineHeight) ==
    \/ e.page > d.page
    \/ e.page = d.page /\ e.col > d.col
    \/ e.page = d.page /\ e.col = d.col
         /\ e.y >= d.y + (d.to - d.from + 1) * lineHeight

\* draw e continues the document right after draw d: the next lines of the same
\* block, or the first lines of the next block once d's block was finished
NextInDocument(d, e) ==
    IF d.block = 0 THEN e.block = 1 /\ e.from = 1
    ELSE \/ e.block = d.block /\ e.from = d.to + 1
         \/ /\ e.block = d.block + 1
            /\ e.from = 1
            /\ d.to = LineCount(render.blocks[d.block].lines) - pdf.trimmed[d.block]

\* C21: within a render, lines are drawn in the order of the blocks and of the
\* lines of each block, the cursor (page, column, y) never moves backwards from
\* one draw to the next, and a page is added only by the advance step taken in
\* the last column of the current page.
C21_DrawsFollowDocumentOrder ==
    [][/\ (pc # "idle" /\ pdf'.lastDraw # pdf.lastDraw) =>
            /\ pdf'.lastDraw.block = render.b
            /\ pdf'.lastDraw.to >= pdf'.lastDraw.from
            /\ NextInDocument(pdf.lastDraw, pdf'.lastDraw)
            /\ pdf.lastDraw.block > 0 =>
                  CursorNotBefore(pdf.lastDraw, pdf'.lastDraw, render.lay.lineHeight)
       /\ (pc # "idle" /\ pdf'.pages # pdf.pages) =>
            /\ pc \in {"line", "fit"}
            /\ render.columnIndex = render.lay.columnCount - 1
            /\ pdf'.pages = pdf.pages + 1
            /\ render'.columnIndex = 0
      ]_vars

\* C21 witness: on a two-column page after the first, a block after the first was
\* drawn in the second column
C21_SecondColumnOfLaterPage ==
    /\ render.lay.columnCount = 2
    /\ pdf.lastDraw.page >= 2
    /\ pdf.lastDraw.col = 1
    /\ pdf.lastDraw.block >= 2

\* the SortResult the sort handler made of the current text
SortedOnce == OnSortClick(FreshUi, sourceText).latestResult

\* the wrapped blocks of the document of a SortResult that a file name stands for,
\* under the current settings
WrappedDocOf(result, fileName) ==
    WrapBlocks(IF fileName = "adult-list.pdf" THEN result.adultDoc.blocks
               ELSE result.juniorDoc.blocks,
               Layout(GetPdfTextSize(pdfTextSize), GetPdfColumns(pdfColumns),
                      GetPdfFontFamily(pdfFont)))

\* C22: during and after any number of downloads, saved or aborted, in any order,
\* latestResult is still the SortResult the sort produced, and each render works
\* on the wrapped blocks of that result's document.
C22_DownloadKeepsResult ==
    /\ latestResult = SortedOnce
    /\ render.outcome # "none" => render.blocks = WrappedDocOf(SortedOnce, render.fileName)

\* C22 witness: the junior list of a result with entries of both audiences was
\* saved, and the result is the one the download click found
C22_JuniorListSaved ==
    /\ render.fileName = "junior-list.pdf"
    /\ pdf.saved
    /\ lastEvent.name = "downloadJunior"
    /\ lastEvent.pre.latestResult = latestResult
    /\ latestResult.adultCount >= 1
    /\ latestResult.juniorCount >= 1
    /\ Len(render.blocks) >= 1

\* C23: for every ParseResult parseList returns, the entries have distinct
\* originalIndex values and one of the two audiences each, buildSortedLists gives
\* isValid = true, and the sort handler does not take its validity-failure branch.
C23_ParsedResultIsValid ==
    (SortParsed /\ pOut.parsed.ok) =>
        /\ \A i, j \in 1..Len(pOut.parsed.entries) :
              pOut.parsed.entries[i].originalIndex = pOut.parsed.entries[j].originalIndex
                 => i = j
        /\ \A i \in 1..Len(pOut.parsed.entries) :
              pOut.parsed.entries[i].audience \in {"adult", "junior"}
        /\ BuildSortedLists(pOut.parsed).isValid
        /\ latestResult # Null
        /\ latestResult.isValid
        /\ statusPanel = "ok"

\* C23 witness: a valid result of several entries, one of them without an item
\* type and so classified by the fallback
C23_ValidWithFallbackEntry ==
    /\ SortParsed /\ pOut.parsed.ok
    /\ statusPanel = "ok"
    /\ latestResult.isValid
    /\ Len(pOut.parsed.entries) >= 2
    /\ \E i \in 1..Len(pOut.parsed.entries) :
          /\ pOut.parsed.entries[i].itemType = <<>>
          /\ pOut.parsed.entries[i].sequence = <<>>

\* the group keys of the entries of a list
GroupKeys(entries) == {GroupKey(entries[i]) : i \in 1..Len(entries)}

\* the entries of a group key are next to each other in a sorted list, and the
\* blocks made of the list have one heading for each group key
OneSectionPerGroup(entries, blocks) ==
    /\ \A i, j \in 1..Len(entries) :
          (i < j /\ GroupKey(entries[i]) = GroupKey(entries[j]))
             => \A k \in i..j : GroupKey(entries[k]) = GroupKey(entries[i])
    /\ Cardinality({b \in 1..Len(blocks) : blocks[b].hasHeading})
          = Cardinality(GroupKeys(entries))

\* C24: in the document of a sorted partition every group key (item type,
\* normalized sequence) has exactly one heading block: the entries of a group key
\* are contiguous in the order of compareEntries.
C24_SectionsNotFragmented ==
    (SortParsed /\ pOut.parsed.ok) =>
        /\ latestResult # Null
        /\ OneSectionPerGroup(pOut.adultEntries, latestResult.adultDoc.blocks)
        /\ OneSectionPerGroup(pOut.juniorEntries, latestResult.juniorDoc.blocks)

\* C25: whenever a handler has returned, the download actions are shown exactly
\* when latestResult is a result with isValid = true, and then lastSortedSource
\* is the text of the input.
C25_ButtonsMatchResult ==
    pc = "idle" =>
        /\ ~downloadsHidden <=> (latestResult # Null /\ latestResult.isValid)
        /\ ~downloadsHidden => lastSortedSource = sourceText

\* C25 witness: an input event that left the sorted text as it was, the download
\* actions still shown
C25_ShownAfterSameInput ==
    /\ pc = "idle"
    /\ lastEvent.name = "input"
    /\ ~lastEvent.changed
    /\ ~downloadsHidden
    /\ latestResult # Null
    /\ lastSortedSource = sourceText

\* the nearest block at or before block b that has its heading
SectionOpener(blocks, b) ==
    CHOOSE h \in 1..b :
        blocks[h].hasHeading /\ \A k \in (h + 1)..b : ~blocks[k].hasHeading

\* the first block of a document has its heading, and the sectionHeading of every
\* block is the first line of the nearest block before it with a heading, which
\* is the heading of the group of the block's entry
HeadingsNameSections(entries, blocks) ==
    /\ Len(blocks) = Len(entries)
    /\ Len(blocks) >= 1 => blocks[1].hasHeading
    /\ \A b \in 1..Len(blocks) :
          /\ blocks[SectionOpener(blocks, b)].lines[1] = blocks[b].sectionHeading
          /\ blocks[b].sectionHeading
                = FormatGroupHeading(entries[b].itemType,
                      NormalizeSequenceForSorting(entries[b].itemType,
                                                  entries[b].sequence))

\* C26: in every RenderDocument with a block, the first block has hasHeading =
\* true and the sectionHeading of every block is the heading line of the nearest
\* block at or before it with hasHeading = true, the section of its entry.
C26_SectionHeadingOfNearestOpener ==
    (SortParsed /\ pOut.parsed.ok) =>
        /\ latestResult # Null
        /\ HeadingsNameSections(pOut.adultEntries, latestResult.adultDoc.blocks)
        /\ HeadingsNameSections(pOut.juniorEntries, latestResult.juniorDoc.blocks)

\* C26 witness: a document of two sections, the second of them with a block that
\* has no heading of its own
C26_SecondSectionContinues ==
    /\ SortParsed /\ pOut.parsed.ok
    /\ Len(latestResult.adultDoc.blocks) = 3
    /\ latestResult.adultDoc.blocks[2].hasHeading
    /\ ~latestResult.adultDoc.blocks[3].hasHeading
    /\ latestResult.adultDoc.blocks[3].sectionHeading
          # latestResult.adultDoc.blocks[1].sectionHeading

====
